---- MODULE Spec2Model ----
(***************************************************************************)
(* A model of src/features/svdff.py: main(conf) and train_ff(X, y, skf,    *)
(* **options), run repeatedly over one dump directory.                     *)
(*                                                                         *)
(* The dump directory is the persistent state; one run of main is a        *)
(* sequence of steps over it.  Artifacts carry their provenance (which     *)
(* vectorizer training, which SVD computation, which fit produced them),   *)
(* arrays carry their shape.  A fold model's output is a sigmoid of an     *)
(* integer pre-activation in base 2, so that scipy's logit is exact on it: *)
(* scores are counted in units of ln 2.                                    *)
(***************************************************************************)
EXTENDS Integers, Sequences, FiniteSets, TLC

\* ---------------------------------------------------------------- bounds
MaxRuns == 3      \* runs of main over the dump directory
MaxEvents == 2    \* environment events: a file lost or damaged, a run killed, conf edited
MaxK == 2         \* conf['svdff.svd'].k ranges over 1..MaxK
NTrain == 4       \* records of the train dataset
NTest == 2        \* records of the test dataset
Sat == 2          \* largest |pre-activation| whose sigmoid is still strictly inside (0, 1)

\* n_splits of lib.dataset.skfold()
NFolds == 2

Folds == 0..(NFolds - 1)
TrainIdx == 0..(NTrain - 1)
TestIdx == 0..(NTest - 1)

\* ------------------------------------------------------------ the dataset
\* train_df['is_duplicate'].values
y == [j \in TrainIdx |-> j % 2]

\* One scalar per record stands for the record's row of U.
TrainRow == [j \in TrainIdx |-> (j % 3) - 1]
TestRow == [j \in TestIdx |-> 1 - (j % 3)]

\* ------------------------------------------------- extended real numbers
\* A float is a rational num/den, +inf, -inf or nan.
Fin(n, d) == [kind |-> "fin", num |-> n, den |-> d]
PosInf == [kind |-> "inf", num |-> 1, den |-> 0]
NegInf == [kind |-> "inf", num |-> -1, den |-> 0]
NaN == [kind |-> "nan", num |-> 0, den |-> 0]

IsFinite(v) == v.kind = "fin"

\* float addition of two accumulator values (finite ones have den = 1)
FAdd(a, b) ==
    IF a.kind = "nan" \/ b.kind = "nan" THEN NaN
    ELSE IF a.kind = "inf" /\ b.kind = "inf"
         THEN (IF a.num = b.num THEN a ELSE NaN)
    ELSE IF a.kind = "inf" THEN a
    ELSE IF b.kind = "inf" THEN b
    ELSE Fin(a.num + b.num, 1)

\* float division by a positive count
FDiv(a, n) == IF a.kind = "fin" THEN Fin(a.num, a.den * n) ELSE a

RECURSIVE Pow2(_)
Pow2(n) == IF n = 0 THEN 1 ELSE 2 * Pow2(n - 1)

RECURSIVE Log2(_)
Log2(n) == IF n <= 1 THEN 0 ELSE 1 + Log2(n \div 2)

\* The output unit Dense(1, activation='sigmoid') on pre-activation z, in
\* float arithmetic: p = 2^z / (1 + 2^z), rounded to exactly 0 or 1 beyond Sat.
\* A probability is the pair num/den.
Sigmoid(z) ==
    IF z > Sat THEN [num |-> 1, den |-> 1]
    ELSE IF z < -Sat THEN [num |-> 0, den |-> 1]
    ELSE IF z >= 0 THEN [num |-> Pow2(z), den |-> Pow2(z) + 1]
    ELSE [num |-> 1, den |-> Pow2(-z) + 1]

\* scipy.special.logit: log(p / (1 - p)), -inf at 0 and +inf at 1
logit(p) ==
    IF p.num = 0 THEN NegInf
    ELSE IF p.num = p.den THEN PosInf
    ELSE Fin(Log2(p.num) - Log2(p.den - p.num), 1)

\* ------------------------------------------------------ the fold network
Layer(size, act) == [size |-> size, activation |-> act]

\* s[i] of a Python list
At0(s, i) == s[i + 1]

\* f = Sequential(); f.add(Dense(layers[0], activations[0], input_dim));
\* for layer, layer_size in enumerate(layers[1:]):
\*     f.add(Dense(layer_size, activation=activations[layer]));
\* f.add(Dense(1, activation='sigmoid'))
build_network(layers, activations, input_dim) ==
    [input_dim |-> input_dim,
     layers |-> <<Layer(At0(layers, 0), At0(activations, 0))>>
                \o [e \in 1..(Len(layers) - 1) |->
                        Layer(At0(Tail(layers), e - 1), At0(activations, e - 1))]
                \o <<Layer(1, "sigmoid")>>]

\* The result of f.fit is one weight; small weights keep the output unit
\* inside (0, 1) on every record, a large one saturates it.
Weights == {1, Sat + 1}

\* f.predict_proba on one record
predict_proba(f, row) == Sigmoid(f.w * row)

\* ------------------------------------------------------- stratified folds
ClassIdx(c) == {j \in TrainIdx : y[j] = c}
Rank(j) == Cardinality({h \in ClassIdx(y[j]) : h < j})

\* the fold of the r-th of n records: the first n % NFolds folds hold one more
FoldOfRank(r, n) ==
    LET q == n \div NFolds
        rem == n % NFolds
    IN  IF r < rem * (q + 1) THEN r \div (q + 1)
        ELSE rem + ((r - rem * (q + 1)) \div q)

\* the fold that validates on record j, for every record
test_folds == [j \in TrainIdx |-> FoldOfRank(Rank(j), Cardinality(ClassIdx(y[j])))]

\* the fold that validates on record j
test_fold(j) == test_folds[j]

\* skf.split(X, y): the (train_idx, valid_idx) of every fold
splits ==
    [n \in Folds |->
        [train_idx |-> {j \in TrainIdx : test_folds[j] # n},
         valid_idx |-> {j \in TrainIdx : test_folds[j] = n}]]

\* the i-th (train_idx, valid_idx) of skf.split(X, y)
skf_split(n) == splits[n]

\* ------------------------------------------------------ files and values
Absent == [tag |-> "absent"]     \* no such file
Corrupt == [tag |-> "corrupt"]   \* a file no loader can read
None == [tag |-> "None"]

\* the result of a load that may raise
Loaded(v) == [ok |-> TRUE, value |-> v]
Raised == [ok |-> FALSE, value |-> None]

\* joblib.dump / joblib.load of the vectorizer
joblib_dump(v) == [tag |-> "pkl", gen |-> v.gen]
joblib_load(file) ==
    IF file.tag = "pkl" THEN Loaded([tag |-> "vectorizer", gen |-> file.gen]) ELSE Raised

\* train_vectorizer(train_df, ...) in run r
train_vectorizer(r) == [tag |-> "vectorizer", gen |-> r]

\* features.linear.save_feature_matrix / load_feature_matrix: the loader
\* returns None when it cannot read the file
save_feature_matrix(M) == [tag |-> "npz", vec |-> M.vec]
load_feature_matrix(file) ==
    IF file.tag = "npz" THEN [tag |-> "matrix", vec |-> file.vec] ELSE None

\* compute_feature_matrix(df, vectorizer, combine='stack')
compute_feature_matrix(v) == [tag |-> "matrix", vec |-> v.gen]

\* compute_svd(X.asfptype(), k=k) in run r: k singular values, k rows of VT
compute_svd(M, k, r) ==
    [S |-> [tag |-> "array", comp |-> r, vec |-> M.vec, shape |-> <<k>>],
     VT |-> [tag |-> "array", comp |-> r, vec |-> M.vec, shape |-> <<k>>]]

\* np.savetxt writes one line per value; np.loadtxt squeezes what it read, so
\* a file of one line comes back as a 0-d array
np_savetxt(a) == [tag |-> "txt", comp |-> a.comp, vec |-> a.vec, lines |-> a.shape[1]]
np_loadtxt(file) ==
    IF file.tag = "txt"
    THEN Loaded([tag |-> "array", comp |-> file.comp, vec |-> file.vec,
                 shape |-> IF file.lines = 1 THEN <<>> ELSE <<file.lines>>])
    ELSE Raised

\* np.savez(file, VT=VT) / np.load(file)['VT']; shape holds the rows of VT
np_savez(a) == [tag |-> "npz_VT", comp |-> a.comp, vec |-> a.vec, rows |-> a.shape[1]]
np_load(file) ==
    IF file.tag = "npz_VT"
    THEN Loaded([tag |-> "array", comp |-> file.comp, vec |-> file.vec,
                 shape |-> <<file.rows>>])
    ELSE Raised

\* len(a): raises TypeError on a 0-d array
py_len(a) == IF a.shape = <<>> THEN Raised ELSE Loaded(a.shape[1])

\* keras save_model / load_model
save_model(f) == [tag |-> "h5", f |-> f]
load_model(file) == IF file.tag = "h5" THEN Loaded(file.f) ELSE Raised

\* ----------------------------------------------------------- configuration
NetConfs ==
    { [layers |-> <<4>>, activations |-> <<"relu">>],
      [layers |-> <<4, 2>>, activations |-> <<"relu", "tanh">>] }

\* conf: svdff.svd.k and svdff.ff.layers / activations
Confs == { [k |-> k, layers |-> n.layers, activations |-> n.activations] :
             k \in 1..MaxK, n \in NetConfs }

EmptyDir ==
    [application_conf |-> Absent, vectorizer |-> Absent, features_train |-> Absent,
     singular_values |-> Absent, singular_vectors |-> Absent,
     model |-> [i \in Folds |-> Absent],
     train_csv |-> Absent, test_csv |-> Absent]

\* the cached artifacts a run may find lost or damaged
CacheFiles == {"vectorizer", "features_train", "singular_values", "singular_vectors"}

VARIABLES
    conf,         \* the configuration the next run reads
    disk,         \* the files of conf['svdff.dump.dir']
    pc,           \* position of the running main, or how the last run ended
    run,          \* number of runs of main started so far
    events,       \* number of environment events so far
    rerun,        \* this run started on the directory a completed run left, conf unchanged
    disk0,        \* the directory as this run found it
    log,          \* what this run logged it recomputed or trained
    vectorizer, X, S, VT, U, U_test,    \* locals of main
    i, predictions, quality,            \* locals of train_ff
    svdff                               \* test_df['svdff']

locals == <<vectorizer, X, S, VT, U, U_test, i, predictions, quality, svdff>>
vars == <<conf, disk, pc, run, events, rerun, disk0, log, locals>>

Stopped == {"idle", "done", "aborted"}

\* a fresh process: nothing logged, no local bound
NoLocals ==
    /\ log' = {}
    /\ vectorizer' = None /\ X' = None /\ S' = None /\ VT' = None
    /\ U' = None /\ U_test' = None
    /\ i' = 0 /\ predictions' = None /\ quality' = <<>> /\ svdff' = None

\* no process: nothing of a run is left but the files
NoRun == NoLocals /\ rerun' = FALSE /\ disk0' = EmptyDir

Init ==
    /\ conf \in Confs
    /\ disk = EmptyDir
    /\ pc = "idle"
    /\ run = 0 /\ events = 0
    /\ rerun = FALSE
    /\ disk0 = EmptyDir
    /\ log = {}
    /\ vectorizer = None /\ X = None /\ S = None /\ VT = None
    /\ U = None /\ U_test = None
    /\ i = 0 /\ predictions = None /\ quality = <<>> /\ svdff = None

Logged(msg, fold) == [msg |-> msg, fold |-> fold]

\* ------------------------------------------------------------------- main
\* lines 151-161: makedirs, dump_config, load_train_df
Start ==
    /\ pc \in Stopped
    /\ run < MaxRuns
    /\ run' = run + 1
    /\ rerun' = (pc = "done")
    /\ disk' = [disk EXCEPT !.application_conf = [tag |-> "conf", conf |-> conf]]
    /\ disk0' = disk
    /\ NoLocals
    /\ pc' = "vectorizer"
    /\ UNCHANGED <<conf, events>>

\* load_or_train_vectorizer without the joblib.dump of line 173
load_or_train_vectorizer_no_dump(d, r) ==
    LET got == joblib_load(d.vectorizer)
    IN  IF got.ok
        THEN [vectorizer |-> got.value, file |-> d.vectorizer, log |-> {}]
        ELSE [vectorizer |-> train_vectorizer(r),
              file |-> d.vectorizer,
              log |-> {Logged("Traininig vectorizer", -1)}]

\* lines 163-173: the vectorizer and the file it leaves, in run r on directory d
load_or_train_vectorizer(d, r) ==
    LET got == joblib_load(d.vectorizer)
    IN  IF got.ok
        THEN [vectorizer |-> got.value, file |-> d.vectorizer, log |-> {}]
        ELSE [vectorizer |-> train_vectorizer(r),
              file |-> joblib_dump(train_vectorizer(r)),
              log |-> {Logged("Traininig vectorizer", -1)}]

Vectorizer ==
    /\ pc = "vectorizer"
    /\ LET r == load_or_train_vectorizer(disk, run)
       IN  /\ vectorizer' = r.vectorizer
           /\ disk' = [disk EXCEPT !.vectorizer = r.file]
           /\ log' = log \cup r.log
    /\ pc' = "features"
    /\ UNCHANGED <<conf, run, events, rerun, disk0, X, S, VT, U, U_test,
                   i, predictions, quality, svdff>>

\* lines 175-186: the train feature matrix and the file it leaves
load_or_compute_features(d, v) ==
    LET got == load_feature_matrix(d.features_train)
    IN  IF got # None
        THEN [X |-> got, file |-> d.features_train, log |-> {}]
        ELSE [X |-> compute_feature_matrix(v),
              file |-> save_feature_matrix(compute_feature_matrix(v)),
              log |-> {Logged("Computing train feature matrix", -1)}]

Features ==
    /\ pc = "features"
    /\ LET r == load_or_compute_features(disk, vectorizer)
       IN  /\ X' = r.X
           /\ disk' = [disk EXCEPT !.features_train = r.file]
           /\ log' = log \cup r.log
    /\ pc' = "svd"
    /\ UNCHANGED <<conf, run, events, rerun, disk0, vectorizer, S, VT, U, U_test,
                   i, predictions, quality, svdff>>

\* lines 192-195: S = np.loadtxt(..); VT = np.load(..)['VT']; assert k == len(S)
load_svd(d, k) ==
    LET s == np_loadtxt(d.singular_values)
        v == np_load(d.singular_vectors)
    IN  IF ~s.ok \/ ~v.ok THEN Raised
        ELSE IF ~py_len(s.value).ok THEN Raised
        ELSE IF k # py_len(s.value).value THEN Raised
        ELSE Loaded([S |-> s.value, VT |-> v.value])

\* lines 188-195: the cached basis loads
SvdLoad ==
    /\ pc = "svd"
    /\ load_svd(disk, conf.k).ok
    /\ S' = load_svd(disk, conf.k).value.S
    /\ VT' = load_svd(disk, conf.k).value.VT
    /\ pc' = "project"
    /\ UNCHANGED <<conf, disk, run, events, rerun, disk0, log, vectorizer, X,
                   U, U_test, i, predictions, quality, svdff>>

\* lines 196-202: the load raised; compute_svd and np.savetxt
SvdCompute ==
    /\ pc = "svd"
    /\ ~load_svd(disk, conf.k).ok
    /\ S' = compute_svd(X, conf.k, run).S
    /\ VT' = compute_svd(X, conf.k, run).VT
    /\ log' = log \cup {Logged("Computing SVD decomposition", -1)}
    /\ disk' = [disk EXCEPT !.singular_values = np_savetxt(S')]
    /\ pc' = "savez"
    /\ UNCHANGED <<conf, run, events, rerun, disk0, vectorizer, X,
                   U, U_test, i, predictions, quality, svdff>>

\* lines 203-204: np.savez of VT (and the plot of S)
SvdSaveVectors ==
    /\ pc = "savez"
    /\ disk' = [disk EXCEPT !.singular_vectors = np_savez(VT)]
    /\ pc' = "project"
    /\ UNCHANGED <<conf, run, events, rerun, disk0, log, vectorizer, X, S, VT,
                   U, U_test, i, predictions, quality, svdff>>

\* VT.transpose().dot(Sinv) needs as many rows of VT as Sinv = diag(1/S) has
CanProject(s, vt) == vt.shape[1] = s.shape[1]

\* lines 207-214: M projected on the basis and symmetrized, k + k columns
project_features(M, s, vt) ==
    [tag |-> "matrix", vec |-> M.vec, S |-> s.comp, VT |-> vt.comp,
     cols |-> 2 * s.shape[1]]

\* lines 206-219 and 67-80: the train projection, then train_ff's set-up
Project ==
    /\ pc = "project"
    /\ IF CanProject(S, VT) /\ Len(conf.layers) = Len(conf.activations)
       THEN /\ U' = project_features(X, S, VT)
            /\ predictions' = [j \in TrainIdx |-> Fin(0, 1)]
            /\ quality' = <<>>
            /\ i' = 0
            /\ pc' = "train_ff"
       ELSE /\ pc' = "aborted"
            /\ UNCHANGED <<U, predictions, quality, i>>
    /\ UNCHANGED <<conf, disk, run, events, rerun, disk0, log, vectorizer, X, S, VT,
                   U_test, svdff>>

\* --------------------------------------------------------------- train_ff
\* lines 95-104: a new network of the configured layers, fit on the fold's
\* training split; w is what the fit arrived at
fit_model(cfg, input_dim, train_idx, w) ==
    [net |-> build_network(cfg.layers, cfg.activations, input_dim),
     fit_on |-> train_idx,
     w |-> w]

\* predict_proba raises on a model built for another input dimension
CanPredict(f, M) == f.net.input_dim = M.cols

\* assign_predictions writing the whole array: predictions[:] = logit(p)
assign_predictions_all(pred, valid_idx, f) ==
    [j \in TrainIdx |-> logit(predict_proba(f, TrainRow[j]))]

\* line 131: predictions[valid_idx] = logit(p_valid)
assign_predictions(pred, valid_idx, f) ==
    [j \in TrainIdx |->
        IF j \in valid_idx THEN logit(predict_proba(f, TrainRow[j])) ELSE pred[j]]

\* lines 133-146: the fold's record (its metrics are not modelled)
fold_record(fold, dump_file) == [fold |-> fold, dump |-> dump_file]

\* lines 109-146 of fold i with model f, up to the return of line 148
FoldBody(f) ==
    IF CanPredict(f, U)
    THEN /\ predictions' = assign_predictions(predictions, skf_split(i).valid_idx, f)
         /\ quality' = Append(quality, fold_record(i, i))
         /\ i' = i + 1
         /\ pc' = IF i + 1 = NFolds THEN "train_csv" ELSE "train_ff"
    ELSE /\ pc' = "aborted"
         /\ UNCHANGED <<predictions, quality, i>>

\* lines 82-90, 109-146: fold i, its checkpoint model_<i>.pkl loads
FoldLoad ==
    /\ pc = "train_ff"
    /\ load_model(disk.model[i]).ok
    /\ FoldBody(load_model(disk.model[i]).value)
    /\ UNCHANGED <<conf, disk, run, events, rerun, disk0, log, vectorizer, X, S, VT,
                   U, U_test, svdff>>

\* lines 82-146: fold i, the load raised: build, fit, save_model
FoldTrain ==
    /\ pc = "train_ff"
    /\ ~load_model(disk.model[i]).ok
    /\ \E w \in Weights :
          LET f == fit_model(conf, U.cols, skf_split(i).train_idx, w)
          IN  /\ disk' = [disk EXCEPT !.model[i] = save_model(f)]
              /\ FoldBody(f)
    /\ log' = log \cup {Logged("Training model on fold", i)}
    /\ UNCHANGED <<conf, run, events, rerun, disk0, vectorizer, X, S, VT,
                   U, U_test, svdff>>

\* ------------------------------------------------------ main, continued
\* lines 229-236: one row per record of train_df, in order
train_rows(pred) ==
    [r \in 1..NTrain |-> [id |-> r - 1, is_duplicate |-> y[r - 1], svdff |-> pred[r - 1]]]

\* lines 221-236: the plots, then train.csv
WriteTrainCsv ==
    /\ pc = "train_csv"
    /\ disk' = [disk EXCEPT !.train_csv = [tag |-> "csv", rows |-> train_rows(predictions)]]
    /\ pc' = "test"
    /\ UNCHANGED <<conf, run, events, rerun, disk0, log, locals>>

\* lines 238-252: test features from the vectorizer, projected on S and VT
TestFeatures ==
    /\ pc = "test"
    /\ U_test' = project_features(compute_feature_matrix(vectorizer), S, VT)
    /\ svdff' = [j \in TestIdx |-> Fin(0, 1)]
    /\ i' = 0
    /\ pc' = "apply"
    /\ UNCHANGED <<conf, disk, run, events, rerun, disk0, log, vectorizer, X, S, VT, U,
                   predictions, quality>>

\* accumulate with = in place of +: test_df['svdff'] = logit(p)
accumulate_overwrite(acc, f) ==
    [j \in TestIdx |-> logit(predict_proba(f, TestRow[j]))]

\* line 256: test_df['svdff'] + logit(p)
accumulate(acc, f) ==
    [j \in TestIdx |-> FAdd(acc[j], logit(predict_proba(f, TestRow[j])))]

\* lines 253-256: the i-th q of quality['folds']
ApplyModel ==
    /\ pc = "apply"
    /\ LET q == quality[i + 1]
           got == load_model(disk.model[q.dump])
       IN  IF got.ok /\ CanPredict(got.value, U_test)
           THEN /\ svdff' = accumulate(svdff, got.value)
                /\ i' = i + 1
                /\ pc' = IF i + 1 = Len(quality) THEN "mean" ELSE "apply"
           ELSE /\ pc' = "aborted"
                /\ UNCHANGED <<svdff, i>>
    /\ UNCHANGED <<conf, disk, run, events, rerun, disk0, log, vectorizer, X, S, VT,
                   U, U_test, predictions, quality>>

\* line 257: test_df['svdff'] / len(quality['folds'])
fold_mean(acc, n) == [j \in TestIdx |-> FDiv(acc[j], n)]

\* lines 260-263: one row per record of test_df, in order
test_rows(scores) == [r \in 1..NTest |-> [test_id |-> r - 1, svdff |-> scores[r - 1]]]

\* lines 257-263: the mean over the folds, then test.csv
WriteTestCsv ==
    /\ pc = "mean"
    /\ svdff' = fold_mean(svdff, Len(quality))
    /\ disk' = [disk EXCEPT !.test_csv = [tag |-> "csv", rows |-> test_rows(svdff')]]
    /\ pc' = "done"
    /\ UNCHANGED <<conf, run, events, rerun, disk0, log, vectorizer, X, S, VT,
                   U, U_test, i, predictions, quality>>

\* ------------------------------------------------------- the environment
Running == pc \notin Stopped

\* the process is killed between two steps
Kill ==
    /\ Running
    /\ events < MaxEvents
    /\ events' = events + 1
    /\ pc' = "idle"
    /\ NoRun
    /\ UNCHANGED <<conf, disk, run>>

\* between runs a cached file is deleted or damaged
SpoilCache ==
    /\ pc \in Stopped
    /\ events < MaxEvents
    /\ \E name \in CacheFiles, what \in {Absent, Corrupt} :
          /\ disk[name] \notin {Absent, what}
          /\ disk' = [disk EXCEPT ![name] = what]
    /\ events' = events + 1
    /\ pc' = "idle"
    /\ NoRun
    /\ UNCHANGED <<conf, run>>

\* between runs a checkpoint model_<i>.pkl is deleted or damaged
SpoilModel ==
    /\ pc \in Stopped
    /\ events < MaxEvents
    /\ \E fold \in Folds, what \in {Absent, Corrupt} :
          /\ disk.model[fold] \notin {Absent, what}
          /\ disk' = [disk EXCEPT !.model[fold] = what]
    /\ events' = events + 1
    /\ pc' = "idle"
    /\ NoRun
    /\ UNCHANGED <<conf, run>>

\* between runs the configuration is edited
EditConf ==
    /\ pc \in Stopped
    /\ events < MaxEvents
    /\ \E c \in Confs : c # conf /\ conf' = c
    /\ events' = events + 1
    /\ pc' = "idle"
    /\ NoRun
    /\ UNCHANGED <<disk, run>>

Next ==
    \/ Start
    \/ Vectorizer
    \/ Features
    \/ SvdLoad
    \/ SvdCompute
    \/ SvdSaveVectors
    \/ Project
    \/ FoldLoad
    \/ FoldTrain
    \/ WriteTrainCsv
    \/ TestFeatures
    \/ ApplyModel
    \/ WriteTestCsv
    \/ Kill
    \/ SpoilCache
    \/ SpoilModel
    \/ EditConf

Spec == Init /\ [][Next]_vars

\* ================================================================ claims
AfterVectorizer == pc \notin {"idle", "vectorizer"}
AfterFeatures == pc \notin {"idle", "vectorizer", "features"}
AfterSvd == pc \notin {"idle", "vectorizer", "features", "svd", "savez"}

TrainedVectorizer == Logged("Traininig vectorizer", -1) \in log
ComputedFeatures == Logged("Computing train feature matrix", -1) \in log
ComputedSvd == Logged("Computing SVD decomposition", -1) \in log
Trained(fold) == Logged("Training model on fold", fold) \in log

\* the model file of fold n, as loaded
ModelOf(n) == load_model(disk.model[n]).value

\* C1: each of the three cached artifacts is first loaded; when the load
\* fails (file missing or unreadable) the artifact is recomputed, written
\* to the same file(s), and the run goes on: a run never aborts before it
\* holds the vectorizer, the feature matrix and the SVD basis.
C1_LoadFailureRecomputes ==
    /\ (AfterVectorizer /\ ~joblib_load(disk0.vectorizer).ok)
          => /\ TrainedVectorizer
             /\ vectorizer = train_vectorizer(run)
             /\ joblib_load(disk.vectorizer) = Loaded(vectorizer)
    /\ (AfterFeatures /\ load_feature_matrix(disk0.features_train) = None)
          => /\ ComputedFeatures
             /\ X = compute_feature_matrix(vectorizer)
             /\ load_feature_matrix(disk.features_train) = X
    /\ (pc = "savez" \/ (AfterSvd /\ ~load_svd(disk0, conf.k).ok))
          => /\ ComputedSvd
             /\ S = compute_svd(X, conf.k, run).S
             /\ VT = compute_svd(X, conf.k, run).VT
             /\ disk.singular_values = np_savetxt(S)
    /\ (AfterSvd /\ ~load_svd(disk0, conf.k).ok)
          => np_load(disk.singular_vectors) = Loaded(VT)
    /\ pc = "aborted" => (vectorizer # None /\ X # None /\ S # None /\ VT # None)

\* a completed run that found the vectorizer damaged and the singular
\* values missing, and recomputed both
C1_Witness ==
    /\ pc = "done"
    /\ disk0.vectorizer = Corrupt
    /\ disk0.singular_values = Absent
    /\ TrainedVectorizer /\ ComputedSvd

\* C2: an artifact whose load succeeds is used as loaded, is not recomputed
\* and its file is not rewritten; a run that starts on the directory a
\* completed run with the same configuration left recomputes nothing, fits
\* no model and leaves the cache files as they were.
C2_CachedArtifactsReused ==
    /\ (AfterVectorizer /\ joblib_load(disk0.vectorizer).ok)
          => /\ vectorizer = joblib_load(disk0.vectorizer).value
             /\ ~TrainedVectorizer
             /\ disk.vectorizer = disk0.vectorizer
    /\ (AfterFeatures /\ load_feature_matrix(disk0.features_train) # None)
          => /\ X = load_feature_matrix(disk0.features_train)
             /\ ~ComputedFeatures
             /\ disk.features_train = disk0.features_train
    /\ (AfterSvd /\ load_svd(disk0, conf.k).ok)
          => /\ S = load_svd(disk0, conf.k).value.S
             /\ VT = load_svd(disk0, conf.k).value.VT
             /\ ~ComputedSvd
             /\ disk.singular_values = disk0.singular_values
             /\ disk.singular_vectors = disk0.singular_vectors
    /\ \A n \in Folds :
          (pc \in {"train_ff", "train_csv"} /\ n < i /\ load_model(disk0.model[n]).ok)
             => (~Trained(n) /\ disk.model[n] = disk0.model[n])
    /\ (pc = "done" /\ rerun)
          => /\ log = {}
             /\ disk.vectorizer = disk0.vectorizer
             /\ disk.features_train = disk0.features_train
             /\ disk.singular_values = disk0.singular_values
             /\ disk.singular_vectors = disk0.singular_vectors
             /\ disk.model = disk0.model

\* C3: the S and VT that main holds after the load-or-compute SVD step have
\* rank k: len(S) = k and VT has k rows; a cached basis with another number
\* of singular values is recomputed.
C3_BasisRankIsK ==
    AfterSvd =>
        /\ S.shape = <<conf.k>>
        /\ VT.shape = <<conf.k>>
        /\ (np_loadtxt(disk0.singular_values).ok
               /\ np_loadtxt(disk0.singular_values).value.shape # <<conf.k>>)
              => ComputedSvd

\* C4: while train_ff's loop runs, after i folds, every index of a fold
\* below i holds the logit of that fold's model on the record and every
\* other index still holds its initial 0; quality['folds'] holds the records
\* of folds 0..i-1 in order.  When the loop ends (i = NFolds) every index
\* holds the score of the one fold that validates on it.
C4_OutOfFoldPredictions ==
    pc \in {"train_ff", "train_csv"} =>
        /\ \A j \in TrainIdx :
              /\ Cardinality({n \in Folds : j \in skf_split(n).valid_idx}) = 1
              /\ predictions[j] =
                    IF test_fold(j) < i
                    THEN logit(predict_proba(ModelOf(test_fold(j)), TrainRow[j]))
                    ELSE Fin(0, 1)
        /\ quality = [n \in 1..i |-> fold_record(n - 1, n - 1)]
        /\ (pc = "train_csv") = (i = NFolds)

\* the loop has ended with fold 0 loaded from its checkpoint and fold 1
\* trained, and some record has a score other than the initial 0
C4_Witness ==
    /\ pc = "train_csv"
    /\ ~Trained(0) /\ Trained(1)
    /\ \E j \in TrainIdx : predictions[j] # Fin(0, 1)

\* the sum of the logits of the first n models of quality['folds'] on test
\* record j, from 0
RECURSIVE LogitSum(_, _)
LogitSum(j, n) ==
    IF n = 0 THEN Fin(0, 1)
    ELSE FAdd(LogitSum(j, n - 1),
              logit(predict_proba(ModelOf(quality[n].dump), TestRow[j])))

\* C5: test inference adds logit(p) of every model of quality['folds'] once,
\* from 0, and divides by the number of folds; the score of test.csv is that
\* mean; every checkpoint named in quality['folds'] is on disk when test
\* inference loads it.
C5_TestScoreIsFoldMean ==
    /\ pc \in {"apply", "mean", "done"} =>
          /\ Len(quality) = NFolds
          /\ \A n \in 1..Len(quality) : quality[n] = fold_record(n - 1, n - 1)
    /\ pc = "apply" =>
          /\ \A n \in 1..Len(quality) : load_model(disk.model[quality[n].dump]).ok
          /\ \A j \in TestIdx : svdff[j] = LogitSum(j, i)
    /\ pc = "mean" => \A j \in TestIdx : svdff[j] = LogitSum(j, Len(quality))
    /\ pc = "done" =>
          /\ \A j \in TestIdx : svdff[j] = FDiv(LogitSum(j, Len(quality)), Len(quality))
          /\ disk.test_csv.rows = test_rows(svdff)

\* a completed run in which two fold models agree on a test record: its
\* score is a finite mean other than 0
C5_Witness ==
    /\ pc = "done"
    /\ \E j \in TestIdx : svdff[j].kind = "fin" /\ svdff[j].num # 0 /\ svdff[j].den = NFolds

\* C6: a completed run leaves train.csv with one row per train record and
\* test.csv with one row per test record, and every score in both is finite.
C6_FiniteScores ==
    pc = "done" =>
        /\ Len(disk.train_csv.rows) = NTrain
        /\ \A r \in 1..NTrain :
              disk.train_csv.rows[r].id = r - 1 /\ IsFinite(disk.train_csv.rows[r].svdff)
        /\ Len(disk.test_csv.rows) = NTest
        /\ \A r \in 1..NTest :
              disk.test_csv.rows[r].test_id = r - 1 /\ IsFinite(disk.test_csv.rows[r].svdff)

\* the network the configuration describes: hidden layer j has layers[j]
\* units and activation activations[j], then one sigmoid unit
ConfiguredLayers(cfg) ==
    [j \in 1..Len(cfg.layers) |-> Layer(cfg.layers[j], cfg.activations[j])]
    \o <<Layer(1, "sigmoid")>>

\* C7: a network trained in this run has the configured layers: hidden
\* layer j has size layers[j] and activation activations[j], followed by one
\* sigmoid output unit.
C7_NetworkAsConfigured ==
    \A n \in Folds :
        (pc # "idle" /\ Trained(n)) => ModelOf(n).net.layers = ConfiguredLayers(conf)

\* C8: the S and VT that main projects with come from the same SVD
\* computation.
C8_BasisFromOneComputation ==
    /\ U # None => U.S = U.VT
    /\ U_test # None => U_test.S = U_test.VT

\* C9: the train features and the test features of a run come from the same
\* vectorizer and the same basis; when the vectorizer was retrained in this
\* run, the feature matrix and the basis are derived from it.
C9_OneVectorizerPerRun ==
    /\ U_test # None =>
          /\ U.vec = U_test.vec
          /\ U.S = U_test.S /\ U.VT = U_test.VT
    /\ (AfterSvd /\ TrainedVectorizer) =>
          /\ X.vec = vectorizer.gen
          /\ S.vec = vectorizer.gen /\ VT.vec = vectorizer.gen

\* C10: the model that scored the validation records of a fold, loaded or
\* trained, was fit on that fold's training split only, for the current
\* input dimension and the current layer configuration.
C10_HeldOutUnderReuse ==
    \A n \in Folds :
        (pc \in {"train_ff", "train_csv"} /\ n < i) =>
            /\ ModelOf(n).fit_on = skf_split(n).train_idx
            /\ ModelOf(n).fit_on \cap skf_split(n).valid_idx = {}
            /\ ModelOf(n).net = build_network(conf.layers, conf.activations, U.cols)

====
